---- MODULE Spec2Model ----
(***************************************************************************)
(* Passenger-profile write path of the users app: the two serializers      *)
(* (users/serializers.py), the views that drive them (users/views.py) and  *)
(* the two tables they touch (users/models.py).                            *)
(*                                                                         *)
(* Strings are sequences of one-character strings, so that startswith and  *)
(* the phone regular expression are computed on the characters.  A request *)
(* body is a record whose fields are options: <<>> when the key is not     *)
(* sent, <<v>> when it is sent with value v.                               *)
(*                                                                         *)
(* The columns work_address, preferred_payment_method, preferred_car_type, *)
(* created_at and updated_at are left out: no validator and no completion  *)
(* rule reads them, and they are written exactly like home_address.        *)
(***************************************************************************)
EXTENDS Integers, Sequences, FiniteSets, TLC

VARIABLES
    users,       \* table of User rows, keyed by id
    passengers,  \* table 'passengers': a sequence of rows
    req,         \* the request each worker is serving, and its position
    race,        \* the two update requests of the serializability scenario
    out          \* results of the completion computations on the stored record

vars == <<users, passengers, req, race, out>>

(***************************************************************************)
(* Bounds and value sets                                                   *)
(***************************************************************************)
MaxRides == 1

PassengerId == "ada"      \* an identity with user_type 'passenger'
RiderId == "bob"          \* an identity with user_type 'rider'
UserIds == {PassengerId, RiderId}

Empty == << >>
Ada == <<"A", "d", "a">>
Jane == <<"J", "a", "n", "e">>
MainSt == <<"1", " ", "M", "a", "i", "n">>
PlusPhone == <<"+", "1", "2", "3", "4", "5", "6", "7", "8", "9", "0">>
BarePhone == <<"1", "2", "3", "4", "5", "6", "7", "8", "9", "0">>
ShortPhone == <<"1", "2", "3", "4", "5", "6", "7">>
UserPhone == <<"+", "1", "5", "5", "5", "1", "2", "3", "4", "5", "6", "7">>

Names == {Empty, Ada}
Addresses == {Empty, MainSt}
ContactNames == {Empty, Jane}
ContactPhones == {Empty, PlusPhone, BarePhone, ShortPhone}
UserPhones == {Empty, UserPhone}

DefaultRating == 500      \* average_rating in hundredths: default=5.0
DefaultRides == 0
ExternalRatings == {450}  \* what the rating process may store
SentRatings == {100}      \* average_rating values a request body may carry
SentRides == {7}          \* total_rides values a request body may carry

None == << >>
Some(v) == <<v>>
Opt(S) == {None} \cup {Some(v) : v \in S}
IsSent(o) == Len(o) = 1
Val(o) == o[1]

\* Python truthiness of a str
Truthy(s) == Len(s) > 0

Digits == {"0", "1", "2", "3", "4", "5", "6", "7", "8", "9"}
AllDigits(s) == \A i \in 1..Len(s) : s[i] \in Digits

\* str.startswith('+')
StartsWithPlus(s) == Len(s) > 0 /\ s[1] = "+"

\* RegexValidator(r'^\+?1?\d{9,15}$')
PhoneRegexMatches(s) ==
    LET rest == IF StartsWithPlus(s) THEN Tail(s) ELSE s
    IN  /\ AllDigits(rest)
        /\ \/ Len(rest) \in 9..15
           \/ Len(rest) > 0 /\ rest[1] = "1" /\ (Len(rest) - 1) \in 9..15

PhoneMaxLength == 15

\* the field-level validators the ModelSerializer takes from the model field
\* emergency_contact_phone (blank=True: '' is returned before any validator)
PhoneFieldValid(s) ==
    \/ ~Truthy(s)
    \/ Len(s) <= PhoneMaxLength /\ PhoneRegexMatches(s)

(***************************************************************************)
(* Rows and in-memory instances                                            *)
(***************************************************************************)
\* a Passenger instance in a worker's memory: the row's columns and the
\* related User as it was read (request.user, or select_related('user'))
Instance(row, user) ==
    [user_id |-> row.user_id, user |-> user,
     home_address |-> row.home_address,
     emergency_contact_name |-> row.emergency_contact_name,
     emergency_contact_phone |-> row.emergency_contact_phone,
     average_rating |-> row.average_rating,
     total_rides |-> row.total_rides,
     is_phone_verified |-> row.is_phone_verified,
     is_profile_complete |-> row.is_profile_complete]

\* the columns Model.save() writes for an instance: all of them
RowOf(obj) ==
    [user_id |-> obj.user_id,
     home_address |-> obj.home_address,
     emergency_contact_name |-> obj.emergency_contact_name,
     emergency_contact_phone |-> obj.emergency_contact_phone,
     average_rating |-> obj.average_rating,
     total_rides |-> obj.total_rides,
     is_phone_verified |-> obj.is_phone_verified,
     is_profile_complete |-> obj.is_profile_complete]

\* Passenger(user=user) with the model's field defaults
NewPassenger(uid) ==
    [user_id |-> uid,
     home_address |-> Empty,
     emergency_contact_name |-> Empty,
     emergency_contact_phone |-> Empty,
     average_rating |-> DefaultRating,
     total_rides |-> DefaultRides,
     is_phone_verified |-> FALSE,
     is_profile_complete |-> FALSE]

HasRow(table, uid) == \E i \in 1..Len(table) : table[i].user_id = uid
RowIndex(table, uid) == CHOOSE i \in 1..Len(table) : table[i].user_id = uid
GetRow(table, uid) == table[RowIndex(table, uid)]

\* INSERT
InsertRow(table, row) == Append(table, row)

\* Model.save(): UPDATE of every column by primary key, INSERT when no row matched
SaveRow(table, row) ==
    IF HasRow(table, row.user_id)
    THEN [table EXCEPT ![RowIndex(table, row.user_id)] = row]
    ELSE Append(table, row)

\* Model.save(update_fields=['is_profile_complete']): UPDATE of that column alone
SaveFlag(table, uid, flag) ==
    [table EXCEPT ![RowIndex(table, uid)].is_profile_complete = flag]

\* DELETE by primary key
DeleteRow(table, uid) == SelectSeq(table, LAMBDA row : row.user_id # uid)

(***************************************************************************)
(* Completion computations                                                 *)
(***************************************************************************)
Count(b) == IF b THEN 1 ELSE 0

TotalFields == 6

\* a percentage that counts an unverified phone number
percentage_counts_unverified_phone(obj) ==
    LET completed_fields ==
            Count(Truthy(obj.user.first_name))
          + Count(Truthy(obj.user.last_name))
          + Count(Truthy(obj.user.phone_number))
          + Count(Truthy(obj.home_address))
          + Count(Truthy(obj.emergency_contact_name))
          + Count(Truthy(obj.emergency_contact_phone))
    IN  (completed_fields * 100) \div 6

\* PassengerSerializer.get_profile_completion_percentage.  The float
\* expression int(c / 6 * 100) equals the exact quotient for c in 0..6.
get_profile_completion_percentage(obj) ==
    LET completed_fields ==
            Count(Truthy(obj.user.first_name))
          + Count(Truthy(obj.user.last_name))
          + Count(Truthy(obj.user.phone_number) /\ obj.is_phone_verified)
          + Count(Truthy(obj.home_address))
          + Count(Truthy(obj.emergency_contact_name))
          + Count(Truthy(obj.emergency_contact_phone))
    IN  IF TotalFields > 0 THEN (completed_fields * 100) \div TotalFields ELSE 0

\* PassengerStatsView._calculate_completion_percentage
calculate_completion_percentage(passenger) ==
    LET completed_fields ==
            Count(Truthy(passenger.user.first_name))
          + Count(Truthy(passenger.user.last_name))
          + Count(Truthy(passenger.user.phone_number) /\ passenger.is_phone_verified)
          + Count(Truthy(passenger.home_address))
          + Count(Truthy(passenger.emergency_contact_name))
          + Count(Truthy(passenger.emergency_contact_phone))
    IN  (completed_fields * 100) \div TotalFields

\* a completion helper that also asks for the user's phone number
completion_requires_phone_number(passenger) ==
    /\ Truthy(passenger.user.first_name)
    /\ Truthy(passenger.user.last_name)
    /\ Truthy(passenger.user.phone_number)
    /\ Truthy(passenger.home_address)
    /\ Truthy(passenger.emergency_contact_name)
    /\ Truthy(passenger.emergency_contact_phone)
    /\ passenger.is_phone_verified

\* PassengerCreateSerializer._calculate_profile_completion
calculate_profile_completion(passenger) ==
    LET required_fields ==
            << Truthy(passenger.user.first_name),
               Truthy(passenger.user.last_name),
               Truthy(passenger.home_address),
               Truthy(passenger.emergency_contact_name),
               Truthy(passenger.emergency_contact_phone),
               passenger.is_phone_verified >>
    IN  \A i \in 1..Len(required_fields) : required_fields[i]

\* the list perform_update builds inline, and all() of it
completion_fields(passenger) ==
    << Truthy(passenger.user.first_name),
       Truthy(passenger.user.last_name),
       Truthy(passenger.home_address),
       Truthy(passenger.emergency_contact_name),
       Truthy(passenger.emergency_contact_phone),
       passenger.is_phone_verified >>

\* a perform_update that trusts the flag already on the instance
perform_update_keeps_flag(passenger) == passenger.is_profile_complete

\* perform_update: all(completion_fields)
perform_update_completion(passenger) ==
    \A i \in 1..Len(completion_fields(passenger)) : completion_fields(passenger)[i]

(***************************************************************************)
(* Serializers                                                             *)
(***************************************************************************)
\* PassengerSerializer: the keys of Meta.read_only_fields are dropped from
\* the request body, every other key of Meta.fields is writable
PassengerSerializer_writable(data) ==
    [data EXCEPT !.average_rating = None, !.total_rides = None]

\* PassengerCreateSerializer: only the keys of Meta.fields are read
PassengerCreateSerializer_writable(data) ==
    [data EXCEPT !.is_phone_verified = None, !.is_profile_complete = None,
                 !.average_rating = None, !.total_rides = None]

\* PassengerSerializer.validate_emergency_contact_phone: TRUE when it returns
validate_emergency_contact_phone(value) ==
    ~(Truthy(value) /\ ~StartsWithPlus(value))

\* PassengerSerializer.validate: TRUE when it returns (data.get on the keys sent)
validate(data) ==
    LET emergency_name == data.emergency_contact_name
        emergency_phone == data.emergency_contact_phone
        name_truthy == IsSent(emergency_name) /\ Truthy(Val(emergency_name))
        phone_truthy == IsSent(emergency_phone) /\ Truthy(Val(emergency_phone))
    IN  ~(name_truthy /\ ~phone_truthy)

\* PassengerSerializer.is_valid: field validators, validate_<field>, then validate
PassengerSerializer_is_valid(data) ==
    LET attrs == PassengerSerializer_writable(data)
        phone == attrs.emergency_contact_phone
    IN  /\ IsSent(phone) =>
              /\ PhoneFieldValid(Val(phone))
              /\ validate_emergency_contact_phone(Val(phone))
        /\ validate(attrs)

\* PassengerCreateSerializer.is_valid: the model field's validators alone
PassengerCreateSerializer_is_valid(data) ==
    LET attrs == PassengerCreateSerializer_writable(data)
        phone == attrs.emergency_contact_phone
    IN  IsSent(phone) => PhoneFieldValid(Val(phone))

Pick(o, old) == IF IsSent(o) THEN Val(o) ELSE old

\* setattr(instance, attr, value) for every validated key
SetAttrs(obj, attrs) ==
    [obj EXCEPT
        !.home_address = Pick(attrs.home_address, @),
        !.emergency_contact_name = Pick(attrs.emergency_contact_name, @),
        !.emergency_contact_phone = Pick(attrs.emergency_contact_phone, @),
        !.average_rating = Pick(attrs.average_rating, @),
        !.total_rides = Pick(attrs.total_rides, @),
        !.is_phone_verified = Pick(attrs.is_phone_verified, @),
        !.is_profile_complete = Pick(attrs.is_profile_complete, @)]

\* a create() without the user_type test
create_any_user_type(user) == TRUE

\* create(): the user_type test
create_user_type_ok(user) == user.user_type = "passenger"

\* the primary key on Passenger.user: objects.create() inserts, and the
\* insert fails with IntegrityError when the user already has a row
create_insert_ok(table, uid) == ~HasRow(table, uid)

Idle == [pc |-> "idle"]

(***************************************************************************)
(* The write path, one action per database statement of a handler, each    *)
(* with the in-memory computation that precedes the next statement         *)
(***************************************************************************)
\* POST /passengers/ up to Passenger.objects.create
CreateRequest(w, uid, data) ==
    /\ req[w].pc = "idle"
    /\ IF /\ PassengerCreateSerializer_is_valid(data)
          /\ create_user_type_ok(users[uid])
          /\ create_insert_ok(passengers, uid)
       THEN LET created == SetAttrs(Instance(NewPassenger(uid), users[uid]),
                                    PassengerCreateSerializer_writable(data))
                passenger == [created EXCEPT !.is_profile_complete =
                                  calculate_profile_completion(created)]
            IN  /\ passengers' = InsertRow(passengers, RowOf(created))
                /\ req' = [req EXCEPT ![w] =
                              [pc |-> "create_save", obj |-> passenger,
                               sent_phone |-> data.emergency_contact_phone]]
                /\ UNCHANGED users
       ELSE UNCHANGED <<users, passengers, req>>

\* create(): passenger.save()
CreateSave(w) ==
    /\ req[w].pc = "create_save"
    /\ passengers' = SaveRow(passengers, RowOf(req[w].obj))
    /\ req' = [req EXCEPT ![w] = Idle]
    /\ UNCHANGED users

\* PUT/PATCH /passengers/{id}/ up to perform_update: get_object, is_valid
UpdateRequest(w, uid, data) ==
    /\ req[w].pc = "idle"
    /\ IF HasRow(passengers, uid) /\ PassengerSerializer_is_valid(data)
       THEN /\ req' = [req EXCEPT ![w] =
                          [pc |-> "update_save",
                           obj |-> SetAttrs(Instance(GetRow(passengers, uid), users[uid]),
                                            PassengerSerializer_writable(data)),
                           sent_phone |-> data.emergency_contact_phone]]
            /\ UNCHANGED <<users, passengers>>
       ELSE UNCHANGED <<users, passengers, req>>

\* perform_update: serializer.save(), then the recalculation in memory
UpdateSave(w) ==
    /\ req[w].pc = "update_save"
    /\ passengers' = SaveRow(passengers, RowOf(req[w].obj))
    /\ req' = [req EXCEPT ![w].pc = "update_flag",
                          ![w].obj.is_profile_complete =
                              perform_update_completion(req[w].obj)]
    /\ UNCHANGED users

\* perform_update: passenger.save(update_fields=['is_profile_complete']);
\* with no row left to update, save raises DatabaseError
UpdateFlag(w) ==
    /\ req[w].pc = "update_flag"
    /\ passengers' = IF HasRow(passengers, req[w].obj.user_id)
                     THEN SaveFlag(passengers, req[w].obj.user_id,
                                   req[w].obj.is_profile_complete)
                     ELSE passengers
    /\ req' = [req EXCEPT ![w] = Idle]
    /\ UNCHANGED users

\* DELETE /passengers/{id}/
Delete(uid) ==
    /\ HasRow(passengers, uid)
    /\ passengers' = DeleteRow(passengers, uid)
    /\ UNCHANGED <<users, req>>

(***************************************************************************)
(* Writers outside the write path: they store one column and nothing else  *)
(***************************************************************************)
\* the verification process sets Passenger.is_phone_verified
VerifyPhone(uid) ==
    /\ HasRow(passengers, uid)
    /\ passengers' = [passengers EXCEPT ![RowIndex(passengers, uid)].is_phone_verified = TRUE]
    /\ UNCHANGED <<users, req>>

\* the identity store changes User.first_name / User.last_name
RenameUser(uid, first, last) ==
    /\ users[uid].user_type = "passenger"
    /\ users' = [users EXCEPT ![uid].first_name = first, ![uid].last_name = last]
    /\ UNCHANGED <<passengers, req>>

\* the rating process sets Passenger.average_rating
RateExternal(uid, rating) ==
    /\ HasRow(passengers, uid)
    /\ passengers' = [passengers EXCEPT ![RowIndex(passengers, uid)].average_rating = rating]
    /\ UNCHANGED <<users, req>>

\* the ride-completion process counts a ride in Passenger.total_rides
RideCompleted(uid) ==
    /\ HasRow(passengers, uid)
    /\ GetRow(passengers, uid).total_rides < MaxRides
    /\ passengers' = [passengers EXCEPT ![RowIndex(passengers, uid)].total_rides = @ + 1]
    /\ UNCHANGED <<users, req>>

(***************************************************************************)
(* Spec: one worker serving create, update and delete requests, with the   *)
(* verification process and the identity store writing between its         *)
(* statements                                                              *)
(***************************************************************************)
Workers == {"w1"}

NoRace == [started |-> {}]
NoOut ==
    [serializer_percentage |-> None, stats_percentage |-> None,
     create_complete |-> None, update_complete |-> None]

WritePayloads ==
    [home_address : Opt(Addresses),
     emergency_contact_name : Opt(ContactNames),
     emergency_contact_phone : Opt(ContactPhones),
     is_phone_verified : Opt(BOOLEAN),
     is_profile_complete : Opt(BOOLEAN),
     average_rating : {None},
     total_rides : {None}]

InitUsers(firsts, lasts, phones) ==
    { [u \in UserIds |->
          IF u = PassengerId
          THEN [user_type |-> "passenger", first_name |-> f, last_name |-> l,
                phone_number |-> p]
          ELSE [user_type |-> "rider", first_name |-> Ada, last_name |-> Ada,
                phone_number |-> UserPhone]] :
      f \in firsts, l \in lasts, p \in phones }

Init ==
    /\ users \in InitUsers(Names, Names, {UserPhone})
    /\ passengers = << >>
    /\ req = [w \in Workers |-> Idle]
    /\ race = NoRace
    /\ out = NoOut

Next ==
    \/ \E w \in Workers, uid \in UserIds, data \in WritePayloads :
          CreateRequest(w, uid, data) /\ UNCHANGED <<race, out>>
    \/ \E w \in Workers : CreateSave(w) /\ UNCHANGED <<race, out>>
    \/ \E w \in Workers, uid \in UserIds, data \in WritePayloads :
          UpdateRequest(w, uid, data) /\ UNCHANGED <<race, out>>
    \/ \E w \in Workers : UpdateSave(w) /\ UNCHANGED <<race, out>>
    \/ \E w \in Workers : UpdateFlag(w) /\ UNCHANGED <<race, out>>
    \/ \E uid \in UserIds : Delete(uid) /\ UNCHANGED <<race, out>>
    \/ \E uid \in UserIds : VerifyPhone(uid) /\ UNCHANGED <<race, out>>
    \/ \E uid \in UserIds, first \in Names, last \in Names :
          RenameUser(uid, first, last) /\ UNCHANGED <<race, out>>

Spec == Init /\ [][Next]_vars

(***************************************************************************)
(* Properties of the write path                                            *)
(***************************************************************************)
\* the completion rule: the five strings non-empty and the phone verified
CompletionRule(user, row) ==
    /\ user.first_name # Empty
    /\ user.last_name # Empty
    /\ row.home_address # Empty
    /\ row.emergency_contact_name # Empty
    /\ row.emergency_contact_phone # Empty
    /\ row.is_phone_verified = TRUE

AtRest == \A w \in DOMAIN req : req[w].pc = "idle"

\* C1: whenever no create or update request is in flight, every stored
\* profile's is_profile_complete equals the completion rule on the stored
\* identity and profile fields.
C1_FlagConsistentAtRest ==
    AtRest =>
        \A i \in 1..Len(passengers) :
            passengers[i].is_profile_complete
                = CompletionRule(users[passengers[i].user_id], passengers[i])

CreateCompletes(w) == req[w].pc = "create_save" /\ req'[w].pc = "idle"

UpdateCompletes(w) ==
    /\ req[w].pc = "update_flag"
    /\ req'[w].pc = "idle"
    /\ HasRow(passengers, req[w].obj.user_id)

\* C2: the step that completes a create or an update leaves the stored
\* is_profile_complete equal to the completion rule on the fields that
\* request stored (its instance), whatever flag the request carried and
\* whatever flag was stored before; a create stores exactly its instance.
C2_CompletedRequestStoresRule ==
    [][\A w \in DOMAIN req :
          /\ CreateCompletes(w) =>
                /\ HasRow(passengers', req[w].obj.user_id)
                /\ GetRow(passengers', req[w].obj.user_id) = RowOf(req[w].obj)
                /\ GetRow(passengers', req[w].obj.user_id).is_profile_complete
                      = CompletionRule(req[w].obj.user, req[w].obj)
          /\ UpdateCompletes(w) =>
                /\ HasRow(passengers', req[w].obj.user_id)
                /\ GetRow(passengers', req[w].obj.user_id).is_profile_complete
                      = CompletionRule(req[w].obj.user, req[w].obj)]_vars

\* a completed update has stored TRUE (no create ever computes TRUE: the
\* instance it evaluates has is_phone_verified = FALSE)
C2_Witness ==
    /\ AtRest
    /\ \E i \in 1..Len(passengers) :
          /\ passengers[i].is_profile_complete
          /\ CompletionRule(users[passengers[i].user_id], passengers[i])

BadFormat(phone) == IsSent(phone) /\ Val(phone) # Empty /\ Val(phone)[1] # "+"

\* C3: no create or update request whose emergency_contact_phone is
\* non-empty and does not start with '+' passes validation (a request that
\* does not pass leaves users and passengers as they were).
C3_FormatRuleOnCreateAndUpdate ==
    \A w \in DOMAIN req : req[w].pc # "idle" => ~BadFormat(req[w].sent_phone)

\* C4: every stored profile with a non-empty emergency_contact_name has a
\* non-empty emergency_contact_phone.
C4_ContactNameImpliesPhone ==
    \A i \in 1..Len(passengers) :
        passengers[i].emergency_contact_name # Empty
            => passengers[i].emergency_contact_phone # Empty

CreateAdmitted(w) == req[w].pc = "idle" /\ req'[w].pc = "create_save"

\* C5: no two stored profiles share an owner, every owner is a passenger
\* identity, and a create is admitted only for a passenger identity that
\* owns no profile, adding one row and leaving the others as they were.
C5_OneProfilePerPassenger ==
    /\ [](\A i, j \in 1..Len(passengers) :
              passengers[i].user_id = passengers[j].user_id => i = j)
    /\ [](\A i \in 1..Len(passengers) :
              users[passengers[i].user_id].user_type = "passenger")
    /\ [][\A w \in DOMAIN req :
              CreateAdmitted(w) =>
                  /\ users[req'[w].obj.user_id].user_type = "passenger"
                  /\ ~HasRow(passengers, req'[w].obj.user_id)
                  /\ Len(passengers') = Len(passengers) + 1
                  /\ SubSeq(passengers', 1, Len(passengers)) = passengers]_vars

\* a profile exists, created and saved, after which a further create by its
\* owner or by the rider is refused
C5_Witness ==
    /\ AtRest
    /\ Len(passengers) = 1
    /\ passengers[1].user_id = PassengerId
    /\ ~create_insert_ok(passengers, PassengerId)
    /\ ~create_user_type_ok(users[RiderId])

SameFields(row, obj) ==
    /\ row.home_address = obj.home_address
    /\ row.emergency_contact_name = obj.emergency_contact_name
    /\ row.emergency_contact_phone = obj.emergency_contact_phone
    /\ row.is_phone_verified = obj.is_phone_verified

\* C6: whenever storage holds the merged fields of a request that has
\* saved them, it holds the is_profile_complete recomputed for them too.
C6_NoPartialCommit ==
    \A w \in DOMAIN req :
        ( /\ req[w].pc \in {"create_save", "update_flag"}
          /\ HasRow(passengers, req[w].obj.user_id)
          /\ SameFields(GetRow(passengers, req[w].obj.user_id), req[w].obj) )
        => GetRow(passengers, req[w].obj.user_id).is_profile_complete
               = req[w].obj.is_profile_complete

(***************************************************************************)
(* SpecEval: the four completion computations applied to one stored        *)
(* record, for every combination of empty and non-empty inputs             *)
(***************************************************************************)
EvalRows ==
    { [NewPassenger(PassengerId) EXCEPT
          !.home_address = h, !.emergency_contact_name = n,
          !.emergency_contact_phone = p, !.is_phone_verified = v] :
      h \in Addresses, n \in ContactNames, p \in {Empty, PlusPhone}, v \in BOOLEAN }

Stored(uid) == Instance(GetRow(passengers, uid), users[uid])

\* GET /passengers/{id}/: the serializer's profile_completion_percentage
Retrieve(uid) ==
    /\ HasRow(passengers, uid)
    /\ out' = [out EXCEPT !.serializer_percentage =
                  Some(get_profile_completion_percentage(Stored(uid)))]
    /\ UNCHANGED <<users, passengers, req, race>>

\* GET /passengers/{id}/stats/: profile_completion
RetrieveStats(uid) ==
    /\ HasRow(passengers, uid)
    /\ out' = [out EXCEPT !.stats_percentage =
                  Some(calculate_completion_percentage(Stored(uid)))]
    /\ UNCHANGED <<users, passengers, req, race>>

\* the create path's helper on the stored record
EvaluateCreateHelper(uid) ==
    /\ HasRow(passengers, uid)
    /\ out' = [out EXCEPT !.create_complete =
                  Some(calculate_profile_completion(Stored(uid)))]
    /\ UNCHANGED <<users, passengers, req, race>>

\* the update path's computation on the stored record
EvaluateUpdateList(uid) ==
    /\ HasRow(passengers, uid)
    /\ out' = [out EXCEPT !.update_complete =
                  Some(perform_update_completion(Stored(uid)))]
    /\ UNCHANGED <<users, passengers, req, race>>

EvalInit ==
    /\ users \in InitUsers(Names, Names, UserPhones)
    /\ passengers \in { <<row>> : row \in EvalRows }
    /\ req = [w \in Workers |-> Idle]
    /\ race = NoRace
    /\ out = NoOut

EvalNext ==
    \/ \E uid \in UserIds : Retrieve(uid)
    \/ \E uid \in UserIds : RetrieveStats(uid)
    \/ \E uid \in UserIds : EvaluateCreateHelper(uid)
    \/ \E uid \in UserIds : EvaluateUpdateList(uid)

SpecEval == EvalInit /\ [][EvalNext]_vars

\* the six presence predicates of the percentage, as the set of those that hold
TruePredicates(user, row) ==
    { k \in 1..6 :
        \/ k = 1 /\ user.first_name # Empty
        \/ k = 2 /\ user.last_name # Empty
        \/ k = 3 /\ user.phone_number # Empty /\ row.is_phone_verified
        \/ k = 4 /\ row.home_address # Empty
        \/ k = 5 /\ row.emergency_contact_name # Empty
        \/ k = 6 /\ row.emergency_contact_phone # Empty }

PercentageTable == <<0, 16, 33, 50, 66, 83, 100>>

ExpectedPercentage ==
    PercentageTable[Cardinality(TruePredicates(users[PassengerId], passengers[1])) + 1]

\* C7: with k of the six presence predicates true, the serializer's and the
\* statistics endpoint's percentage are both floor(k*100/6), one of
\* 0, 16, 33, 50, 66, 83, 100, and they agree.
C7_PercentageIsFloorOfSixths ==
    /\ IsSent(out.serializer_percentage) =>
          Val(out.serializer_percentage) = ExpectedPercentage
    /\ IsSent(out.stats_percentage) =>
          Val(out.stats_percentage) = ExpectedPercentage
    /\ IsSent(out.serializer_percentage) /\ IsSent(out.stats_percentage) =>
          Val(out.serializer_percentage) = Val(out.stats_percentage)

\* both endpoints have answered 83 for a record with five predicates true
C7_Witness ==
    /\ Cardinality(TruePredicates(users[PassengerId], passengers[1])) = 5
    /\ out.serializer_percentage = Some(83)
    /\ out.stats_percentage = Some(83)

WithoutPhoneNumber(obj) == [obj EXCEPT !.user.phone_number = Empty]
WithPhoneNumber(obj) == [obj EXCEPT !.user.phone_number = UserPhone]

\* C8: the create-path helper and the update-path computation both give
\* the completion rule (five strings non-empty and is_phone_verified), they
\* agree, and the result is the same with and without a phone_number.
C8_IsCompleteIgnoresPhoneNumber ==
    /\ IsSent(out.create_complete) =>
          /\ Val(out.create_complete)
                = CompletionRule(users[PassengerId], passengers[1])
          /\ Val(out.create_complete)
                = calculate_profile_completion(WithoutPhoneNumber(Stored(PassengerId)))
          /\ Val(out.create_complete)
                = calculate_profile_completion(WithPhoneNumber(Stored(PassengerId)))
    /\ IsSent(out.update_complete) =>
          /\ Val(out.update_complete)
                = CompletionRule(users[PassengerId], passengers[1])
          /\ Val(out.update_complete)
                = perform_update_completion(WithoutPhoneNumber(Stored(PassengerId)))
          /\ Val(out.update_complete)
                = perform_update_completion(WithPhoneNumber(Stored(PassengerId)))
    /\ IsSent(out.create_complete) /\ IsSent(out.update_complete) =>
          Val(out.create_complete) = Val(out.update_complete)

\* a record without phone_number is complete on both paths while its
\* percentage is 83
C8_Witness ==
    /\ users[PassengerId].phone_number = Empty
    /\ out.create_complete = Some(TRUE)
    /\ out.update_complete = Some(TRUE)
    /\ out.serializer_percentage = Some(83)

(***************************************************************************)
(* SpecStats: one worker serving create and update requests whose bodies   *)
(* may carry average_rating and total_rides, with the rating process and   *)
(* the ride-completion process writing between its statements              *)
(***************************************************************************)
StatsPayloads ==
    [home_address : Opt(Addresses),
     emergency_contact_name : {None},
     emergency_contact_phone : Opt({PlusPhone}),
     is_phone_verified : {None},
     is_profile_complete : {None},
     average_rating : Opt(SentRatings),
     total_rides : Opt(SentRides)]

StatsInit ==
    /\ users \in InitUsers({Ada}, {Ada}, {UserPhone})
    /\ passengers = << >>
    /\ req = [w \in Workers |-> Idle]
    /\ race = NoRace
    /\ out = NoOut

StatsNext ==
    \/ \E w \in Workers, uid \in UserIds, data \in StatsPayloads :
          CreateRequest(w, uid, data) /\ UNCHANGED <<race, out>>
    \/ \E w \in Workers : CreateSave(w) /\ UNCHANGED <<race, out>>
    \/ \E w \in Workers, uid \in UserIds, data \in StatsPayloads :
          UpdateRequest(w, uid, data) /\ UNCHANGED <<race, out>>
    \/ \E w \in Workers : UpdateSave(w) /\ UNCHANGED <<race, out>>
    \/ \E w \in Workers : UpdateFlag(w) /\ UNCHANGED <<race, out>>
    \/ \E uid \in UserIds, rating \in ExternalRatings :
          RateExternal(uid, rating) /\ UNCHANGED <<race, out>>
    \/ \E uid \in UserIds : RideCompleted(uid) /\ UNCHANGED <<race, out>>

SpecStats == StatsInit /\ [][StatsNext]_vars

\* C9: no step of a create or update request changes a stored
\* average_rating or total_rides, and a profile a request adds has the
\* defaults 5.00 and 0.
C9_RequestsLeaveStatistics ==
    [][req' # req =>
          \A uid \in UserIds :
              HasRow(passengers', uid) =>
                  IF HasRow(passengers, uid)
                  THEN /\ GetRow(passengers', uid).average_rating
                             = GetRow(passengers, uid).average_rating
                       /\ GetRow(passengers', uid).total_rides
                             = GetRow(passengers, uid).total_rides
                  ELSE /\ GetRow(passengers', uid).average_rating = DefaultRating
                       /\ GetRow(passengers', uid).total_rides = DefaultRides]_vars

(***************************************************************************)
(* SpecRace: two workers, each serving one update request on the same      *)
(* profile, their statements interleaved in every order                    *)
(***************************************************************************)
RaceWorkers == {"w1", "w2"}

RacePayloads ==
    [home_address : Opt(Addresses),
     emergency_contact_name : {None},
     emergency_contact_phone : Opt({Empty, PlusPhone}),
     is_phone_verified : Opt({TRUE}),
     is_profile_complete : {None},
     average_rating : {None},
     total_rides : {None}]

\* the whole update handler run with no other statement in between
SerialUpdate(row, user, data) ==
    IF PassengerSerializer_is_valid(data)
    THEN LET saved == SetAttrs(Instance(row, user), PassengerSerializer_writable(data))
         IN  RowOf([saved EXCEPT !.is_profile_complete = perform_update_completion(saved)])
    ELSE row

\* profiles at rest: the stored flag is the completion computed on the row
RaceRows ==
    { RowOf([obj EXCEPT !.is_profile_complete = perform_update_completion(obj)]) :
      obj \in { Instance([NewPassenger(PassengerId) EXCEPT
                              !.home_address = h,
                              !.emergency_contact_name = Jane,
                              !.emergency_contact_phone = PlusPhone,
                              !.is_phone_verified = v],
                         [user_type |-> "passenger", first_name |-> Ada,
                          last_name |-> Ada, phone_number |-> UserPhone]) :
                h \in Addresses, v \in BOOLEAN } }

RaceInit ==
    /\ users \in InitUsers({Ada}, {Ada}, {UserPhone})
    /\ \E row \in RaceRows, data \in [RaceWorkers -> RacePayloads] :
          /\ passengers = <<row>>
          /\ race = [started |-> {}, row0 |-> row, data |-> data]
    /\ req = [w \in RaceWorkers |-> Idle]
    /\ out = NoOut

RaceNext ==
    \/ \E w \in RaceWorkers :
          /\ w \notin race.started
          /\ UpdateRequest(w, PassengerId, race.data[w])
          /\ race' = [race EXCEPT !.started = @ \cup {w}]
          /\ UNCHANGED out
    \/ \E w \in RaceWorkers : UpdateSave(w) /\ UNCHANGED <<race, out>>
    \/ \E w \in RaceWorkers : UpdateFlag(w) /\ UNCHANGED <<race, out>>

SpecRace == RaceInit /\ [][RaceNext]_vars

RaceDone == race.started = RaceWorkers /\ AtRest

\* C10: when both update requests have finished, the stored profile is
\* what the two requests give when run one after the other, in one of the
\* two orders.
C10_UpdatesSerializable ==
    RaceDone =>
        LET user == users[PassengerId]
            d1 == race.data["w1"]
            d2 == race.data["w2"]
        IN  passengers \in
               { << SerialUpdate(SerialUpdate(race.row0, user, d1), user, d2) >>,
                 << SerialUpdate(SerialUpdate(race.row0, user, d2), user, d1) >> }

(***************************************************************************)
(* SpecPair: two workers serving create, update and delete requests of     *)
(* both identities at once, their statements interleaved in every order    *)
(***************************************************************************)
PairPayloads ==
    [home_address : Opt({MainSt}),
     emergency_contact_name : {None},
     emergency_contact_phone : {None},
     is_phone_verified : Opt({TRUE}),
     is_profile_complete : {None},
     average_rating : {None},
     total_rides : {None}]

PairInit ==
    /\ users \in InitUsers({Ada}, {Ada}, {UserPhone})
    /\ passengers = << >>
    /\ req = [w \in RaceWorkers |-> Idle]
    /\ race = NoRace
    /\ out = NoOut

PairNext ==
    \/ \E w \in RaceWorkers, uid \in UserIds, data \in PairPayloads :
          CreateRequest(w, uid, data) /\ UNCHANGED <<race, out>>
    \/ \E w \in RaceWorkers : CreateSave(w) /\ UNCHANGED <<race, out>>
    \/ \E w \in RaceWorkers, uid \in UserIds, data \in PairPayloads :
          UpdateRequest(w, uid, data) /\ UNCHANGED <<race, out>>
    \/ \E w \in RaceWorkers : UpdateSave(w) /\ UNCHANGED <<race, out>>
    \/ \E w \in RaceWorkers : UpdateFlag(w) /\ UNCHANGED <<race, out>>
    \/ \E uid \in UserIds : Delete(uid) /\ UNCHANGED <<race, out>>

SpecPair == PairInit /\ [][PairNext]_vars


\* C11: no step of a create or update request changes a stored
\* is_phone_verified, and a profile a request adds has is_phone_verified
\* false, whatever value the request carries for it.
C11_RequestsLeavePhoneVerified ==
    [][req' # req =>
          \A uid \in UserIds :
              HasRow(passengers', uid) =>
                  IF HasRow(passengers, uid)
                  THEN GetRow(passengers', uid).is_phone_verified
                           = GetRow(passengers, uid).is_phone_verified
                  ELSE GetRow(passengers', uid).is_phone_verified = FALSE]_vars

====
